---- MODULE Spec2Model ----
(***************************************************************************)
(* IBM IAM adapters of aws/signer/ibm/ibm.go: the credential Provider      *)
(* (Retrieve, getCredentials, IsExpired) and the request Signer (Sign,     *)
(* SignRequest).  Goroutines call Provider.Retrieve directly or sign the   *)
(* request through Credentials.Get; the HTTP POST of getCredentials is the *)
(* point where calls interleave.                                           *)
(***************************************************************************)
EXTENDS Integers, Sequences, FiniteSets, TLC

\* ---------------------------------------------------------------- bounds
MaxTime == 2
MaxWindow == 1
MaxSigns == 2

Procs == {"g1", "g2"}
NoProc == "none"
Times == 0..MaxTime
Windows == (-1)..MaxWindow

\* ------------------------------------------------------------- constants
ProviderName == "IBMIAMProvider"
defaultIAMEndPoint == "https://iam.bluemix.net/oidc/token"
StatusOK == 200

Tokens == {"tokA", "tokB"}
Statuses == {200, 500}
OpNames == {"ListBuckets", "CreateBucket", "GetObject", "listbuckets"}
Endpoints == {"", "https://iam.test"}
apiKey == "key1"
serviceInstanceID == "sid1"

\* the zero time.Time of a fresh Expiry lies before every unix timestamp
ZeroTime == -1

\* ------------------------------------------------------------ error values
Nil == [code |-> "", message |-> "", orig |-> ""]

\* awserr.New(code, message, origErr)
awserrNew(code, message, origErr) ==
    [code |-> code, message |-> message, orig |-> origErr]

\* the error http.PostForm returns when the endpoint is unreachable
TransportErr == "Post: dial tcp: connection refused"
\* fmt.Errorf("server returned status %d instead of 200", resp.StatusCode)
StatusErr(status) ==
    "server returned status " \o ToString(status) \o " instead of 200"
\* the error json.Decoder.Decode returns on a malformed body
JSONErr == "invalid character looking for beginning of value"

\* ------------------------------------------------- what the endpoint answers
\* an HTTP exchange: transport failure, or a status with a body that is
\* either malformed or the JSON object {access_token, expiration}
Exchanges ==
    {[transport |-> FALSE, status |-> s, wellformed |-> w,
      AccessToken |-> t, Expiration |-> e] :
        s \in Statuses, w \in BOOLEAN, t \in Tokens, e \in Times}
    \cup {[transport |-> TRUE, status |-> 0, wellformed |-> FALSE,
           AccessToken |-> "tokA", Expiration |-> 0]}

\* canonical shape: fields the code never reads are fixed, so that equal
\* observable exchanges are equal values
Canonical(x) ==
    IF x.transport THEN TRUE
    ELSE IF x.status # StatusOK \/ ~x.wellformed
         THEN x.AccessToken = "tokA" /\ x.Expiration = 0 /\
              (x.status # StatusOK => x.wellformed)
         ELSE TRUE

HTTPExchanges == {x \in Exchanges : Canonical(x)}

\* (*getCredentialsOutput, error) of getCredentials for an exchange
NoOutput == [Expiration |-> 0, AccessToken |-> ""]

\* getCredentials without the status check of line 170
getCredentialsNoStatusCheck(x) ==
    IF x.transport
    THEN [out |-> NoOutput, err |-> TransportErr]
    ELSE IF ~x.wellformed
    THEN [out |-> NoOutput, err |-> JSONErr]
    ELSE [out |-> [Expiration |-> x.Expiration, AccessToken |-> x.AccessToken],
          err |-> ""]

\* getCredentials dropping the decoder's error of line 177
getCredentialsNoDecodeCheck(x) ==
    IF x.transport
    THEN [out |-> NoOutput, err |-> TransportErr]
    ELSE IF x.status # 200
    THEN [out |-> NoOutput, err |-> StatusErr(x.status)]
    ELSE IF ~x.wellformed
    THEN [out |-> [Expiration |-> 0, AccessToken |-> ""], err |-> ""]
    ELSE [out |-> [Expiration |-> x.Expiration, AccessToken |-> x.AccessToken],
          err |-> ""]

getCredentialsResult(x) ==
    IF x.transport
    THEN [out |-> NoOutput, err |-> TransportErr]
    ELSE IF x.status # 200
    THEN [out |-> NoOutput, err |-> StatusErr(x.status)]
    ELSE IF ~x.wellformed
    THEN [out |-> NoOutput, err |-> JSONErr]
    ELSE [out |-> [Expiration |-> x.Expiration, AccessToken |-> x.AccessToken],
          err |-> ""]

\* the URL getCredentials posts to
IAMEndpointURL(endpoint) ==
    IF endpoint # "" THEN endpoint \o "/oidc/token" ELSE defaultIAMEndPoint

\* --------------------------------------------------------- credentials.Value
EmptyValue == [ServiceInstanceID |-> "", SessionToken |-> "", ProviderName |-> ""]

\* Retrieve handing out the API key in place of the access token
RetrieveResultApiKey(r) ==
    IF r.err # ""
    THEN [value |-> [ServiceInstanceID |-> "", SessionToken |-> "",
                     ProviderName |-> ProviderName],
          err |-> awserrNew("CredentialsEndpointError",
                            "failed to load credentials", r.err)]
    ELSE [value |-> [ServiceInstanceID |-> serviceInstanceID,
                     SessionToken |-> apiKey,
                     ProviderName |-> ProviderName],
          err |-> Nil]

\* (credentials.Value, error) of Provider.Retrieve given getCredentials' result
RetrieveResult(r) ==
    IF r.err # ""
    THEN [value |-> [ServiceInstanceID |-> "", SessionToken |-> "",
                     ProviderName |-> ProviderName],
          err |-> awserrNew("CredentialsEndpointError",
                            "failed to load credentials", r.err)]
    ELSE [value |-> [ServiceInstanceID |-> serviceInstanceID,
                     SessionToken |-> r.out.AccessToken,
                     ProviderName |-> ProviderName],
          err |-> Nil]

\* ------------------------------------------------------- credentials.Expiry
\* Expiry.SetExpiration(expiration, window): a window of 0 or less is ignored
SetExpiration(expiration, window) ==
    [expiration |-> expiration, window |-> IF window > 0 THEN window ELSE 0]

\* Retrieve passing no window to SetExpiration
ExpiryAfterRetrieveNoWindow(e, r, window) ==
    IF r.err # "" THEN e ELSE SetExpiration(r.out.Expiration, 0)

\* Retrieve calling SetExpiration before looking at the error
ExpiryAfterRetrieveOnError(e, r, window) ==
    SetExpiration(r.out.Expiration, window)

\* the Expiry the provider holds after Retrieve handled getCredentials' result
ExpiryAfterRetrieve(e, r, window) ==
    IF r.err # "" THEN e ELSE SetExpiration(r.out.Expiration, window)

\* Expiry.IsExpired at time t
ExpiryIsExpired(e, t) == t >= e.expiration - e.window

\* ----------------------------------------------------------- http.Header
\* textproto.CanonicalMIMEHeaderKey on the keys the signer uses
CanonicalHeaderKey(k) ==
    CASE k = "Authorization" -> "Authorization"
      [] k = "authorization" -> "Authorization"
      [] k = "ibm-service-instance-id" -> "Ibm-Service-Instance-Id"
      [] k = "Ibm-Service-Instance-Id" -> "Ibm-Service-Instance-Id"

HeaderKeys == {"Authorization", "Ibm-Service-Instance-Id"}

\* Header.Set in place of Header.Add
HeaderSet(h, key, value) ==
    [h EXCEPT ![CanonicalHeaderKey(key)] = <<value>>]

\* http.Header.Add(key, value)
HeaderAdd(h, key, value) ==
    [h EXCEPT ![CanonicalHeaderKey(key)] = Append(@, value)]

\* http.Header.Values(key)
HeaderValues(h, key) == h[CanonicalHeaderKey(key)]

EmptyHeader == [k \in HeaderKeys |-> <<>>]
InitialHeaders ==
    {EmptyHeader,
     [EmptyHeader EXCEPT !["Authorization"] = <<"Basic b2xk">>,
                         !["Ibm-Service-Instance-Id"] = <<"sid0">>]}

\* Sign writing the bare token
SignHeaderNoPrefix(h, creds, opName) ==
    LET h1 == HeaderAdd(h, "Authorization", creds.SessionToken)
    IN  IF opName = "ListBuckets" \/ opName = "CreateBucket"
        THEN HeaderAdd(h1, "ibm-service-instance-id", creds.ServiceInstanceID)
        ELSE h1

\* Sign forgetting ListBuckets
SignHeaderCreateOnly(h, creds, opName) ==
    LET h1 == HeaderAdd(h, "Authorization", "Bearer " \o creds.SessionToken)
    IN  IF opName = "CreateBucket"
        THEN HeaderAdd(h1, "ibm-service-instance-id", creds.ServiceInstanceID)
        ELSE h1

\* the header Signer.Sign leaves on the request once Get returned creds
SignHeader(h, creds, opName) ==
    LET h1 == HeaderAdd(h, "Authorization", "Bearer " \o creds.SessionToken)
    IN  IF opName = "ListBuckets" \/ opName = "CreateBucket"
        THEN HeaderAdd(h1, "ibm-service-instance-id", creds.ServiceInstanceID)
        ELSE h1

\* ------------------------------------------------------------------ state
VARIABLES
    now,          \* the clock Expiry.IsExpired reads
    IAMEndpoint,  \* Provider.IAMEndpoint
    ExpiryWindow, \* Provider.ExpiryWindow
    expiry,       \* Provider.Expiry
    creds,        \* the value Credentials caches
    mutex,        \* holder of the Credentials lock, NoProc when free
    pc,           \* position of each goroutine
    kind,         \* what each goroutine is running: "Retrieve" or "Sign"
    xchg,         \* the HTTP exchange each goroutine's POST got
    posted,       \* URLs each goroutine posted to during its current call
    ret,          \* (value, err) each goroutine's last Retrieve returned
    sret,         \* (creds, err) of the last Sign: what Get gave it, what
                  \* it returned
    req,          \* the request being signed: Header, Error, Operation
    signed,       \* successful Sign calls on req
    hist          \* history: the last successful fetch, whether two fetches
                  \* raced, the header the request started with

vars == <<now, IAMEndpoint, ExpiryWindow, expiry, creds, mutex, pc, kind,
          xchg, posted, ret, sret, req, signed, hist>>

NoExchange == [transport |-> TRUE, status |-> 0, wellformed |-> FALSE,
               AccessToken |-> "tokA", Expiration |-> 0]
NoFetch == [fetched |-> FALSE, Expiration |-> 0, raced |-> FALSE,
            header |-> EmptyHeader]
NoReturn == [value |-> EmptyValue, err |-> Nil, done |-> FALSE]

Init ==
    /\ now = 0
    /\ IAMEndpoint \in Endpoints
    /\ ExpiryWindow \in Windows
    /\ expiry = [expiration |-> ZeroTime, window |-> 0]
    /\ creds = EmptyValue
    /\ mutex = NoProc
    /\ pc = [p \in Procs |-> "idle"]
    /\ kind = [p \in Procs |-> "Retrieve"]
    /\ xchg = [p \in Procs |-> NoExchange]
    /\ posted = [p \in Procs |-> <<>>]
    /\ ret = [p \in Procs |-> NoReturn]
    /\ sret = NoReturn
    /\ \E h \in InitialHeaders, op \in OpNames :
         /\ req = [Header |-> h, Error |-> Nil, Operation |-> op]
         /\ hist = [NoFetch EXCEPT !.header = h]
    /\ signed = 0

\* Provider.IsExpired
IsExpired == ExpiryIsExpired(expiry, now)

\* time passes
Tick ==
    /\ now < MaxTime
    /\ now' = now + 1
    /\ UNCHANGED <<IAMEndpoint, ExpiryWindow, expiry, creds, mutex, pc, kind,
                   xchg, posted, ret, sret, req, signed, hist>>

\* a goroutine enters Provider.Retrieve
CallRetrieve(p) ==
    /\ pc[p] = "idle"
    /\ pc' = [pc EXCEPT ![p] = "getCredentials"]
    /\ kind' = [kind EXCEPT ![p] = "Retrieve"]
    /\ posted' = [posted EXCEPT ![p] = <<>>]
    /\ xchg' = [xchg EXCEPT ![p] = NoExchange]
    /\ ret' = [ret EXCEPT ![p] = NoReturn]
    /\ hist' = [hist EXCEPT !.raced = FALSE]
    /\ UNCHANGED <<now, IAMEndpoint, ExpiryWindow, expiry, creds, mutex,
                   sret, req, signed>>

\* getCredentials: http.PostForm and the endpoint's answer
PostForm(p) ==
    /\ pc[p] = "getCredentials"
    /\ \E x \in HTTPExchanges : xchg' = [xchg EXCEPT ![p] = x]
    /\ posted' = [posted EXCEPT ![p] = Append(@, IAMEndpointURL(IAMEndpoint))]
    /\ pc' = [pc EXCEPT ![p] = "answered"]
    /\ UNCHANGED <<now, IAMEndpoint, ExpiryWindow, expiry, creds, mutex,
                   kind, ret, sret, req, signed, hist>>

\* the fetch record after Retrieve handled getCredentials' result
OKExchange(x) == ~x.transport /\ x.status = StatusOK /\ x.wellformed

HistAfter(p, r) ==
    IF r.err # "" THEN hist
    ELSE [hist EXCEPT !.fetched = TRUE, !.Expiration = r.out.Expiration,
                      !.raced = @ \/ \E q \in Procs \ {p} :
                                      pc[q] = "answered" /\ OKExchange(xchg[q])]

\* Retrieve posting once more after a failure
AfterGetCredentialsRetry(p, r) ==
    IF r.err # "" /\ Len(posted[p]) < 2 THEN "getCredentials" ELSE "idle"

\* where Retrieve goes once getCredentials returned
AfterGetCredentials(p, r) == "idle"

\* Provider.Retrieve called directly returns to its caller
RetrieveReturn(p) ==
    /\ pc[p] = "answered"
    /\ kind[p] = "Retrieve"
    /\ LET r == getCredentialsResult(xchg[p])
           v == RetrieveResult(r) IN
         /\ expiry' = ExpiryAfterRetrieve(expiry, r, ExpiryWindow)
         /\ ret' = [ret EXCEPT ![p] =
                      [value |-> v.value, err |-> v.err, done |-> TRUE]]
         /\ hist' = HistAfter(p, r)
         /\ pc' = [pc EXCEPT ![p] = AfterGetCredentials(p, r)]
    /\ UNCHANGED <<now, IAMEndpoint, ExpiryWindow, creds, mutex, kind, xchg,
                   posted, sret, req, signed>>

\* SignRequest -> Sign -> Credentials.Get while the cached value is current
SignRequestCached(p) ==
    /\ pc[p] = "idle"
    /\ mutex = NoProc
    /\ signed < MaxSigns
    /\ ~IsExpired
    /\ kind' = [kind EXCEPT ![p] = "Sign"]
    /\ posted' = [posted EXCEPT ![p] = <<>>]
    /\ xchg' = [xchg EXCEPT ![p] = NoExchange]
    /\ sret' = [value |-> creds, err |-> Nil, done |-> TRUE]
    /\ req' = [req EXCEPT !.Header = SignHeader(@, creds, req.Operation)]
    /\ signed' = signed + 1
    /\ UNCHANGED <<now, IAMEndpoint, ExpiryWindow, expiry, creds, mutex, pc,
                   ret, hist>>

\* SignRequest -> Sign -> Credentials.Get finds the provider expired and
\* enters Provider.Retrieve holding the Credentials lock
SignRequestRefresh(p) ==
    /\ pc[p] = "idle"
    /\ mutex = NoProc
    /\ signed < MaxSigns
    /\ IsExpired
    /\ mutex' = p
    /\ kind' = [kind EXCEPT ![p] = "Sign"]
    /\ pc' = [pc EXCEPT ![p] = "getCredentials"]
    /\ posted' = [posted EXCEPT ![p] = <<>>]
    /\ xchg' = [xchg EXCEPT ![p] = NoExchange]
    /\ sret' = NoReturn
    /\ UNCHANGED <<now, IAMEndpoint, ExpiryWindow, expiry, creds, ret, req,
                   signed, hist>>

\* Sign adding the headers before looking at the error
RequestAfterSignNoShortCircuit(rq, v) ==
    IF v.err # Nil
    THEN [rq EXCEPT !.Error = v.err,
                    !.Header = SignHeader(@, v.value, rq.Operation)]
    ELSE [rq EXCEPT !.Header = SignHeader(@, v.value, rq.Operation)]

\* the request after Sign and SignRequest handled what Get returned
RequestAfterSign(rq, v) ==
    IF v.err # Nil
    THEN [rq EXCEPT !.Error = v.err]
    ELSE [rq EXCEPT !.Header = SignHeader(@, v.value, rq.Operation)]

\* Retrieve returns into Get, Get into Sign, Sign into SignRequest; the
\* response does not outlive the call
SignRequestReturn(p) ==
    /\ pc[p] = "answered"
    /\ kind[p] = "Sign"
    /\ mutex = p
    /\ LET r == getCredentialsResult(xchg[p])
           v == RetrieveResult(r) IN
         /\ expiry' = ExpiryAfterRetrieve(expiry, r, ExpiryWindow)
         /\ hist' = HistAfter(p, r)
         /\ creds' = IF v.err # Nil THEN creds ELSE v.value
         /\ sret' = [value |-> IF v.err # Nil THEN EmptyValue ELSE v.value,
                     err |-> v.err, done |-> TRUE]
         /\ req' = RequestAfterSign(req, v)
         /\ signed' = IF v.err # Nil THEN signed ELSE signed + 1
         /\ pc' = [pc EXCEPT ![p] = AfterGetCredentials(p, r)]
    /\ xchg' = [xchg EXCEPT ![p] = NoExchange]
    /\ mutex' = NoProc
    /\ UNCHANGED <<now, IAMEndpoint, ExpiryWindow, kind, posted, ret>>

\* goroutines calling Provider.Retrieve directly, with no lock
Next ==
    \/ Tick
    \/ \E p \in Procs : CallRetrieve(p)
    \/ \E p \in Procs : PostForm(p)
    \/ \E p \in Procs : RetrieveReturn(p)

Spec == Init /\ [][Next]_vars

\* goroutines signing the request through Credentials
NextSigner ==
    \/ Tick
    \/ \E p \in Procs : SignRequestCached(p)
    \/ \E p \in Procs : SignRequestRefresh(p)
    \/ \E p \in Procs : PostForm(p)
    \/ \E p \in Procs : SignRequestReturn(p)

SpecSigner == Init /\ [][NextSigner]_vars

\* ------------------------------------------------------------ properties
Last(q) == q[Len(q)]
IsPrefix(a, b) == Len(a) <= Len(b) /\ SubSeq(b, 1, Len(a)) = a
Auth(h) == HeaderValues(h, "Authorization")
SID(h) == HeaderValues(h, "ibm-service-instance-id")
SignedBy(p) == pc[p] = "idle" /\ kind[p] = "Sign" /\ sret.done
Retrieved(p) == pc[p] = "idle" /\ kind[p] = "Retrieve" /\ ret[p].done

\* C1: whenever credential retrieval succeeds (a fetch answered 200 with a
\* well-formed body, or the cached value is current), Sign returns no error
\* and the request then carries the Authorization value "Bearer " followed by
\* the session token retrieved, whatever the operation name.
C1_SignAddsBearer ==
    [][\A p \in Procs :
        /\ (SignRequestReturn(p) /\ OKExchange(xchg[p])) =>
              /\ sret'.err = Nil
              /\ sret'.value.SessionToken = xchg[p].AccessToken
              /\ Len(Auth(req'.Header)) = Len(Auth(req.Header)) + 1
              /\ Last(Auth(req'.Header)) = "Bearer " \o xchg[p].AccessToken
        /\ SignRequestCached(p) =>
              /\ sret'.err = Nil
              /\ creds.SessionToken \in Tokens
              /\ Len(Auth(req'.Header)) = Len(Auth(req.Header)) + 1
              /\ Last(Auth(req'.Header)) = "Bearer " \o creds.SessionToken]_vars

C1_Witness ==
    \E p \in Procs :
        /\ SignedBy(p) /\ sret.err = Nil
        /\ req.Operation = "GetObject"
        /\ sret.value.SessionToken = "tokB"
        /\ Auth(req.Header) = <<"Basic b2xk", "Bearer tokB">>

\* C2: a successful Sign adds the ibm-service-instance-id header, with the
\* credential's service-instance id, if and only if the operation name is
\* exactly "ListBuckets" or "CreateBucket"; for any other name it adds none.
C2_ServiceInstanceHeader ==
    [][\A p \in Procs :
        ((SignRequestReturn(p) /\ OKExchange(xchg[p])) \/ SignRequestCached(p)) =>
            IF req.Operation \in {"ListBuckets", "CreateBucket"}
            THEN SID(req'.Header) =
                    Append(SID(req.Header), sret'.value.ServiceInstanceID)
                 /\ sret'.value.ServiceInstanceID = serviceInstanceID
            ELSE SID(req'.Header) = SID(req.Header)]_vars

C2_Witness ==
    \E p \in Procs :
        /\ SignedBy(p) /\ sret.err = Nil /\ signed = 1
        /\ req.Operation = "ListBuckets"
        /\ SID(req.Header) = <<"sid0", "sid1">>

\* C6: when credential retrieval fails, Sign returns that error unchanged,
\* leaves the request's headers exactly as they were, and SignRequest records
\* that same error as the request's error; when retrieval succeeds
\* SignRequest leaves the request's error untouched.
C6_SignShortCircuits ==
    [][\A p \in Procs :
        /\ (SignRequestReturn(p) /\ ~OKExchange(xchg[p])) =>
              /\ sret'.err # Nil
              /\ sret'.err.code = "CredentialsEndpointError"
              /\ sret'.err.orig = getCredentialsResult(xchg[p]).err
              /\ req'.Header = req.Header
              /\ req'.Error = sret'.err
              /\ signed' = signed
        /\ ((SignRequestReturn(p) /\ OKExchange(xchg[p])) \/ SignRequestCached(p)) =>
              req'.Error = req.Error]_vars

C6_Witness ==
    \E p \in Procs :
        /\ SignedBy(p) /\ sret.err # Nil
        /\ req.Error = sret.err
        /\ signed = 1
        /\ sret.err.orig = StatusErr(500)

\* C10: Sign only appends header values: every value on the request before a
\* step is still there, in place, after it, and each successful Sign adds
\* exactly one Authorization value of the form "Bearer <token>", so after k
\* successful Sign calls the request carries k more Authorization values.
C10_SignOnlyAppends ==
    /\ [][\A k \in HeaderKeys : IsPrefix(req.Header[k], req'.Header[k])]_vars
    /\ [](/\ Len(Auth(req.Header)) = Len(Auth(hist.header)) + signed
          /\ IsPrefix(Auth(hist.header), Auth(req.Header))
          /\ \A i \in 1..Len(Auth(req.Header)) :
                i > Len(Auth(hist.header)) =>
                   \E t \in Tokens : Auth(req.Header)[i] = "Bearer " \o t)

C10_Witness ==
    /\ signed = 2
    /\ Len(Auth(req.Header)) = 3
    /\ Auth(req.Header)[1] = "Basic b2xk"
    /\ Auth(req.Header)[2] = Auth(req.Header)[3]

\* the window SetExpiration applies: ExpiryWindow, ignored when 0 or less
EffectiveWindow == IF ExpiryWindow > 0 THEN ExpiryWindow ELSE 0

\* C3 as stated: for every well-formed token response IsExpired() is false
\* immediately after the successful Retrieve(), and it is true once
\* now >= expiration - ExpiryWindow.
C3_Original ==
    /\ [][\A p \in Procs :
            (RetrieveReturn(p) /\ OKExchange(xchg[p])) => ~IsExpired']_vars
    /\ [](hist.fetched =>
            (now >= hist.Expiration - EffectiveWindow => IsExpired))

\* C3 amended: after a successful Retrieve(), at once and at every later
\* time, IsExpired() is false exactly while now < expiration - W and true
\* once now >= expiration - W, where expiration is the response's unix
\* timestamp and W is ExpiryWindow when positive and 0 otherwise; so it is
\* false immediately after Retrieve() only for a response whose expiration
\* is later than now + W.
C3_ExpiredIffPastWindow ==
    /\ [][\A p \in Procs :
            (RetrieveReturn(p) /\ OKExchange(xchg[p])) =>
                (IsExpired' <=> now' >= xchg[p].Expiration - EffectiveWindow)]_vars
    /\ [](hist.fetched =>
            (IsExpired <=> now >= hist.Expiration - EffectiveWindow))

C3_Witness ==
    \E p \in Procs :
        /\ Retrieved(p) /\ ret[p].err = Nil
        /\ ExpiryWindow > 0
        /\ xchg[p].Expiration = hist.Expiration
        /\ now = xchg[p].Expiration - ExpiryWindow
        /\ IsExpired

\* C4: Retrieve() yields an endpoint error whenever the endpoint is
\* unreachable or answers with a status other than 200, and then returns no
\* token: the value carries only the provider name.
C4_EndpointError ==
    \A p \in Procs :
        (Retrieved(p) /\ (xchg[p].transport \/ xchg[p].status # 200)) =>
            /\ ret[p].err # Nil
            /\ ret[p].err.code = "CredentialsEndpointError"
            /\ ret[p].value = [ServiceInstanceID |-> "", SessionToken |-> "",
                               ProviderName |-> ProviderName]

C4_Witness ==
    \E p \in Procs :
        /\ Retrieved(p) /\ ~xchg[p].transport /\ xchg[p].status = 500
        /\ ret[p].err.code = "CredentialsEndpointError"
        /\ ret[p].value.SessionToken = ""

\* the errors Retrieve returns for a transport failure or a non-200 status
EndpointErrors ==
    {RetrieveResult(getCredentialsResult(x)).err :
        x \in {y \in HTTPExchanges : y.transport \/ y.status # 200}}

C7_OnePostPerCall ==
    \A p \in Procs :
        /\ Len(posted[p]) <= 1
        /\ pc[p] = "getCredentials" => Len(posted[p]) = 0
        /\ pc[p] = "answered" => Len(posted[p]) = 1
        /\ ret[p].done => pc[p] = "idle" /\ Len(posted[p]) = 1
        /\ (Retrieved(p) /\ ~OKExchange(xchg[p])) => ret[p].err # Nil
        /\ \A i \in 1..Len(posted[p]) : posted[p][i] = IAMEndpointURL(IAMEndpoint)

C7_Witness ==
    \E p \in Procs :
        /\ Retrieved(p) /\ ret[p].err # Nil /\ ~xchg[p].wellformed
        /\ posted[p] = <<"https://iam.test/oidc/token">>

\* C8: IsExpired() is true for a provider that has not yet retrieved
\* credentials; a failed Retrieve() leaves the cached expiration, and so the
\* IsExpired() answer, unchanged; hence IsExpired() stays true as long as
\* every Retrieve() so far failed.
C8_FailureKeepsExpiry ==
    /\ [](~hist.fetched => IsExpired /\ expiry.expiration = ZeroTime)
    /\ [][\A p \in Procs :
            (RetrieveReturn(p) /\ ~OKExchange(xchg[p])) =>
                /\ expiry' = expiry
                /\ IsExpired' = IsExpired]_vars

C8_Witness ==
    \E p \in Procs :
        /\ Retrieved(p) /\ ret[p].err # Nil
        /\ hist.fetched /\ ~IsExpired

====
